---- MODULE Spec2Model ----
(***************************************************************************)
(* Model of indivo/lib/query.py: the FactQuery session object of the       *)
(* Indivo query API.  A session is built from a field schema, a bag of     *)
(* query options and a request URL; execute() compiles the options into a  *)
(* query plan (filter -> group -> aggregate -> order), counts and slices   *)
(* the result, render() executes lazily, next_url() computes the           *)
(* continuation URL.                                                       *)
(*                                                                         *)
(* Conventions.  A Python value that may be None is a sequence of length   *)
(* at most one: None is <<>> and x is <<x>>.  A raw string the code takes  *)
(* apart (a filter value, an order_by, a number in a URL) is a sequence of *)
(* characters; names that the code only looks up are TLA+ strings.  The    *)
(* relation the backing store returns for a compiled plan is opaque: it is *)
(* the sequence store of row ids, in the order the store yields them.      *)
(***************************************************************************)
EXTENDS Integers, Sequences, FiniteSets, TLC

\* ------------------------------------------------------------------ bounds
MaxRows == 3
MaxLimit == 2
MaxOffset == 2
MaxCalls == 2

\* ------------------------------------------------------- Python primitives
None == <<>>
Some(x) == <<x>>
IsNone(o) == o = <<>>
Val(o) == o[1]

Min2(a, b) == IF a <= b THEN a ELSE b

\* seq[lo:hi] of Python: an index below zero counts from the end, and both
\* ends are clamped to the sequence.
SliceIndex(i, len) == IF i < 0 THEN (IF i + len < 0 THEN 0 ELSE i + len) ELSE Min2(i, len)
Slice(seq, lo, hi) == SubSeq(seq, SliceIndex(lo, Len(seq)) + 1, SliceIndex(hi, Len(seq)))

EmptyDict == [k \in {} |-> None]
\* d[k] = v
DictSet(d, k, v) == [x \in (DOMAIN d) \cup {k} |-> IF x = k THEN v ELSE d[x]]

\* --------------------------------------------------------- module constants
DATE == "date"
STRING_T == "string"
NUMBER == "number"

Digits == {"0", "1", "2", "3", "4", "5", "6", "7", "8", "9"}
DigitVal(c) ==
    CASE c = "0" -> 0 [] c = "1" -> 1 [] c = "2" -> 2 [] c = "3" -> 3 [] c = "4" -> 4
      [] c = "5" -> 5 [] c = "6" -> 6 [] c = "7" -> 7 [] c = "8" -> 8 [] c = "9" -> 9
DigitChar(d) ==
    CASE d = 0 -> "0" [] d = 1 -> "1" [] d = 2 -> "2" [] d = 3 -> "3" [] d = 4 -> "4"
      [] d = 5 -> "5" [] d = 6 -> "6" [] d = 7 -> "7" [] d = 8 -> "8" [] d = 9 -> "9"

RECURSIVE DigitsVal(_, _)
DigitsVal(s, acc) ==
    IF s = <<>> THEN acc ELSE DigitsVal(Tail(s), 10 * acc + DigitVal(Head(s)))

\* A coerced filter value: its exposed type and its value.  A string or a
\* date is its text s.  A finite number is the double nearest to n * 10^e, n
\* having no trailing zero (70.0 is n = 7, e = 1; 7.5 is n = 75, e = -1; 0.0
\* is n = 0, e = 0); a double below 1e-314 is n * 2^-1074 and has
\* s = "2**-1074"; an infinity has s = "inf" and its sign in n; the
\* not-a-number has s = "nan".
Coerced(t, n, e, s) == [t |-> t, n |-> n, e |-> e, s |-> s]

\* The one lexeme of the model that the ISO-8601 parser accepts.
IsoLexeme == "2011-01-01T00:00:00Z"
parse_iso8601_datetime(tok) ==
    IF tok.chars = <<IsoLexeme>> THEN Some(Coerced(DATE, 0, 0, tok.chars)) ELSE None

\* Raw values.  A raw value is a Python string object: its type, a byte
\* string (str) or a unicode object, and its characters.  The type belongs
\* to the object, whatever its characters: u'7' and u'' are unicode objects.
\* A character is a one-character string, or its Python escape in lower-case
\* hexadecimal: \xNN for a control character, the grave accent (\x60) or a
\* code 0x7f-0xff, and \uNNNN or \UNNNNNNNN for a character of a unicode
\* object above U+00FF.
Bytes(chars) == [unicode |-> FALSE, chars |-> chars]
Unicode(chars) == [unicode |-> TRUE, chars |-> chars]
\* isinstance(tok, unicode)
IsUnicode(tok) == tok.unicode
VerticalTab == "\\x0b"
HexDigits == "0123456789abcdef"
HexVal(h) == CHOOSE v \in 0..15 : SubSeq(HexDigits, v + 1, v + 1) = h
RECURSIVE HexNum(_, _, _)
HexNum(c, i, acc) ==
    IF i > Len(c) THEN acc ELSE HexNum(c, i + 1, 16 * acc + HexVal(SubSeq(c, i, i)))
IsEscape(c) == Len(c) > 1 /\ SubSeq(c, 1, 1) = "\\"
\* The code of a character written as an escape.
CodePoint(c) == HexNum(c, 3, 0)
\* The character of code cp < 256 written as an escape.
ByteChar(cp) ==
    "\\x" \o SubSeq(HexDigits, cp \div 16 + 1, cp \div 16 + 1)
          \o SubSeq(HexDigits, (cp % 16) + 1, (cp % 16) + 1)

\* str(tok): a byte string is returned as it is; a unicode object is encoded
\* to ASCII, which raises UnicodeEncodeError on a character above U+007F.
\* None when it raises.
AsciiChar(c) == IF IsEscape(c) THEN ByteChar(CodePoint(c)) ELSE c
Str(tok) ==
    IF ~IsUnicode(tok) THEN Some(Coerced(STRING_T, 0, 0, tok.chars))
    ELSE IF \E i \in 1..Len(tok.chars) :
                IsEscape(tok.chars[i]) /\ CodePoint(tok.chars[i]) > 127
    THEN None
    ELSE Some(Coerced(STRING_T, 0, 0,
                      [i \in 1..Len(tok.chars) |-> AsciiChar(tok.chars[i])]))

\* float(tok) of Python 2.7.  A unicode object is first encoded to decimal:
\* a Unicode blank becomes a space, a Unicode decimal digit its ASCII digit
\* and any other character of code 1 to 255 its byte; NUL and any other
\* character above U+00FF raise.  Then surrounding whitespace
\* (C isspace) is stripped; then an optional sign; then "inf", "infinity" or
\* "nan" in any case, or a decimal numeral: digits with an optional point (at
\* least one digit before or after it) and an optional exponent
\* e[sign]digits.  None when float raises.  The value is the double nearest
\* to the numeral: a numeral beyond the largest double gives an infinity, one
\* below half the smallest double gives zero.  (Numerals of more than nine
\* significant digits are outside what the model represents.)
Whitespace == {" ", "\t", "\n", VerticalTab, "\f", "\r"}
\* The codes Py_UNICODE_ISSPACE accepts (Unicode 5.2, the database of
\* Python 2.7): U+0009-000D, 001C-0020, 0085, 00A0, 1680, 180E, 2000-200A,
\* 2028, 2029, 202F, 205F, 3000.
UnicodeSpace ==
    (9..13) \cup (28..32) \cup {133, 160, 5760, 6158} \cup (8192..8202)
       \cup {8232, 8233, 8239, 8287, 12288}
\* The codes of the digits zero of the scripts with decimal digits, the nine
\* codes after each being its digits one to nine (Unicode 5.2, UCS-4 build):
\* U+0030, 0660, 06F0, 07C0, 0966, 09E6, 0A66, 0AE6, 0B66, 0BE6, 0C66, 0CE6,
\* 0D66, 0E50, 0ED0, 0F20, 1040, 1090, 17E0, 1810, 1946, 19D0, 1A80, 1A90,
\* 1B50, 1BB0, 1C40, 1C50, A620, A8D0, A900, A9D0, AA50, ABF0, FF10, 104A0,
\* 1D7CE, 1D7D8, 1D7E2, 1D7EC, 1D7F6.
DecimalZeros ==
    {48, 1632, 1776, 1984, 2406, 2534, 2662, 2790, 2918, 3046, 3174, 3302,
     3430, 3664, 3792, 3872, 4160, 4240, 6112, 6160, 6470, 6608, 6784, 6800,
     6992, 7088, 7232, 7248, 42528, 43216, 43264, 43472, 43600, 44016, 65296,
     66720, 120782, 120792, 120802, 120812, 120822}
\* Py_UNICODE_TODECIMAL(cp) >= 0 (6618 is U+19DA, the one decimal digit
\* outside a run of ten, of value 1).
IsDecimal(cp) == cp = 6618 \/ \E z \in DecimalZeros : cp - z \in 0..9
\* PyUnicode_EncodeDecimal on the character of code cp: "" when it is
\* unencodable.
EncodeCode(cp) ==
    IF cp \in UnicodeSpace THEN " "
    ELSE IF cp = 6618 THEN "1"
    ELSE IF IsDecimal(cp)
    THEN DigitChar(cp - (CHOOSE z \in DecimalZeros : cp - z \in 0..9))
    ELSE IF cp > 0 /\ cp < 256 THEN ByteChar(cp)
    ELSE ""
EncodeChar(c) ==
    IF IsEscape(c) THEN CHOOSE r \in {EncodeCode(cp) : cp \in {CodePoint(c)}} : TRUE
    ELSE IF c \in Whitespace THEN " "
    ELSE c
\* The text float() scans: the byte string itself, or the unicode object
\* encoded to decimal.  None when the encoding raises.
EncodeDecimal(tok) ==
    IF ~IsUnicode(tok) THEN Some(tok.chars)
    ELSE CHOOSE r \in {IF \E i \in 1..Len(s) : s[i] = "" THEN None ELSE Some(s) :
                         s \in {[i \in 1..Len(tok.chars) |-> EncodeChar(tok.chars[i])]}} : TRUE

\* The position of the first character of s that is no whitespace, one past
\* its end when there is none.
LStripPos(s) ==
    CHOOSE k \in 1..(Len(s) + 1) :
        /\ \A j \in 1..(k - 1) : s[j] \in Whitespace
        /\ (k = Len(s) + 1 \/ s[k] \notin Whitespace)
\* The length of s without its trailing whitespace.
RStripLen(s) ==
    CHOOSE n \in 0..Len(s) :
        /\ \A j \in (n + 1)..Len(s) : s[j] \in Whitespace
        /\ (n = 0 \/ s[n] \notin Whitespace)

Lower(c) ==
    CASE c = "I" -> "i" [] c = "N" -> "n" [] c = "F" -> "f" [] c = "A" -> "a"
      [] c = "T" -> "t" [] c = "Y" -> "y" [] c = "E" -> "e" [] OTHER -> c

RECURSIVE Pow10(_)
Pow10(k) == IF k = 0 THEN 1 ELSE 10 * Pow10(k - 1)
\* The number of decimal digits of n > 0.
RECURSIVE NumDigits(_)
NumDigits(n) == IF n < 10 THEN 1 ELSE 1 + NumDigits(n \div 10)

\* n * 10^e, n > 0, rounds to an infinity: it is at least
\* 1.7976931348623158e308, midway between the largest double and 2^1024.
FloatOverflows(n, e) ==
    LET d == NumDigits(n)
    IN  \/ d + e - 1 > 308
        \/ d + e - 1 = 308 /\ n > 1797693134 \div Pow10(10 - d)
\* n * 10^e, n > 0, rounds to zero: it is at most 2.4703282292062327e-324,
\* half the smallest double.
FloatUnderflows(n, e) ==
    LET d == NumDigits(n)
    IN  \/ d + e - 1 < 0 - 324
        \/ d + e - 1 = 0 - 324 /\ (d > 9 \/ n <= 247032822 \div Pow10(9 - d))

Infinity(sign) == Coerced(NUMBER, sign, 0, <<"inf">>)

\* 2^1074 in decimal, its 324 digits as a string: a double below the
\* smallest normal one is a multiple of 2^-1074.
TwoPow1074 ==
    "20240225330731061835249534671891730704955664976414211835690135802"
       \o "74303395679953468919603837014371244951870778643168119113898087373"
       \o "85793476867013399940738509921517424276566361364466907742093216341"
       \o "23976767847274506856200748342469269861810335564915955634081005651"
       \o "2358769552333414615230502532186327508646006263307707741093494784"
\* The digit of 2^1074 at 10^p, zero beyond its ends.
TwoPow1074Digit(p) ==
    IF p >= 0 /\ p < 324 THEN DigitVal(SubSeq(TwoPow1074, 324 - p, 324 - p)) ELSE 0
\* The four digits of 2^1074 from 10^p up, as a number.
TwoPow1074Limb(p) ==
    TwoPow1074Digit(p) + 10 * TwoPow1074Digit(p + 1) + 100 * TwoPow1074Digit(p + 2)
       + 1000 * TwoPow1074Digit(p + 3)
\* Long multiplication of 2^1074 by n = n2 * 10^8 + n1 * 10^4 + n0 in groups
\* of four digits, the groups counted from 10^E: the sum of the products
\* that fall into group j, before the carry from below.
GroupSum(n0, n1, n2, E, j) ==
    TwoPow1074Limb(E + 4 * j) * n0 + TwoPow1074Limb(E + 4 * j - 4) * n1
       + TwoPow1074Limb(E + 4 * j - 8) * n2
\* The carry out of the groups a..b, given the carry into group a (the
\* carry out of the lower half is bound once, to its value).
RECURSIVE GroupCarry(_, _, _, _, _, _, _)
GroupCarry(n0, n1, n2, E, a, b, carry) ==
    IF a = b THEN (GroupSum(n0, n1, n2, E, a) + carry) \div 10000
    ELSE CHOOSE r \in {GroupCarry(n0, n1, n2, E, a + (b - a) \div 2 + 1, b, c) :
                         c \in {GroupCarry(n0, n1, n2, E, a, a + (b - a) \div 2, carry)}} : TRUE
\* k with the four digits `limb` of the quotient at 10^(4j) added: digits
\* before the point at their place, the first digit after the point as the
\* rounding (the quotient is never midway between two integers).
UnitsAdd(k, limb, j) ==
    IF j >= 0 THEN (IF limb = 0 THEN k ELSE k + limb * Pow10(4 * j))
    ELSE IF limb >= 5000 THEN k + 1
    ELSE k
\* n * 2^1074 / 10^E rounded to the nearest integer, from group j >= -1 on,
\* k being the part below (the sum of a group is bound once, to its value).
RECURSIVE SubnormalUnits(_, _, _, _, _, _, _)
SubnormalUnits(n0, n1, n2, E, j, carry, k) ==
    IF j > 2 THEN k
    ELSE CHOOSE r \in {SubnormalUnits(n0, n1, n2, E, j + 1, t \div 10000, UnitsAdd(k, t % 10000, j)) :
                         t \in {GroupSum(n0, n1, n2, E, j) + carry}} : TRUE
\* The double for n * 10^e below 1e-314, in units of 2^-1074.
SubnormalOf(n0, n1, n2, E) ==
    SubnormalUnits(n0, n1, n2, E, 0 - 1,
                   GroupCarry(n0, n1, n2, E, 0 - ((E + 3) \div 4), 0 - 2, 0), 0)
\* n * 10^e, n > 0, is below 1e-314: doubles there are wider apart than
\* numerals of nine digits, so two numerals can round to one double.
FloatSubnormal(n, e) == NumDigits(n) + e - 1 < 0 - 314

\* The double for sign * n * 10^e, n having no trailing zero.
FloatFinite(sign, n, e) ==
    IF n = 0 THEN Some(Coerced(NUMBER, 0, 0, <<>>))
    ELSE IF FloatOverflows(n, e) THEN Some(Infinity(sign))
    ELSE IF FloatUnderflows(n, e) THEN Some(Coerced(NUMBER, 0, 0, <<>>))
    ELSE IF FloatSubnormal(n, e)
    THEN Some(Coerced(NUMBER,
                      sign * SubnormalOf(n % 10000, (n \div 10000) % 10000, n \div 100000000, 0 - e),
                      0, <<"2**-1074">>))
    ELSE Some(Coerced(NUMBER, sign * n, e, <<>>))

\* The words float accepts in place of a numeral, after the sign.
FloatSpecial(sign, word) ==
    LET low == [i \in 1..Len(word) |-> Lower(word[i])]
    IN  IF low \in {<<"i", "n", "f">>, <<"i", "n", "f", "i", "n", "i", "t", "y">>}
        THEN Some(Infinity(sign))
        ELSE IF low = <<"n", "a", "n">>
        THEN Some(Coerced(NUMBER, 0, 0, <<"nan">>))
        ELSE None

\* The state of the scan of a numeral.  phase is "lead" in the leading
\* whitespace, "int" in the digits before the point, "frac" in those after
\* it, "esign" right after the e, "edigit" after the sign of the exponent,
\* "exp" in the digits of the exponent, "trail" in the trailing whitespace
\* and "fail" once the text is no numeral; seen tells whether the mantissa
\* has a digit yet.  mant is the mantissa up to its last non-zero digit,
\* zeros the number of zeros read since, frac the number of digits read after
\* the point, esign and eval the exponent.
ScanStart ==
    [phase |-> "lead", sign |-> 1, seen |-> FALSE, mant |-> 0, zeros |-> 0,
     frac |-> 0, esign |-> 1, eval |-> 0]
ScanComplete(st) ==
    (st.phase \in {"int", "frac"} /\ st.seen) \/ st.phase \in {"exp", "trail"}

\* A digit d of the mantissa.
ScanDigit(st, d) ==
    [st EXCEPT !.seen = TRUE,
               !.mant = IF d = 0 THEN @ ELSE @ * Pow10(st.zeros + 1) + d,
               !.zeros = IF d # 0 \/ st.mant = 0 THEN 0 ELSE @ + 1]

\* The state after the character c.  An exponent of more than five digits
\* is not read further: the value is zero or out of range already.
ScanStep(st, c) ==
    CASE st.phase = "lead" /\ c \in Whitespace -> st
      [] st.phase = "lead" /\ c \in {"+", "-"} ->
           [st EXCEPT !.phase = "int", !.sign = IF c = "-" THEN 0 - 1 ELSE 1]
      [] st.phase \in {"lead", "int"} /\ c \in Digits ->
           ScanDigit([st EXCEPT !.phase = "int"], DigitVal(c))
      [] st.phase \in {"lead", "int"} /\ c = "." -> [st EXCEPT !.phase = "frac"]
      [] st.phase = "frac" /\ c \in Digits ->
           ScanDigit([st EXCEPT !.frac = @ + 1], DigitVal(c))
      [] st.phase \in {"int", "frac"} /\ st.seen /\ Lower(c) = "e" ->
           [st EXCEPT !.phase = "esign"]
      [] st.phase = "esign" /\ c \in {"+", "-"} ->
           [st EXCEPT !.phase = "edigit", !.esign = IF c = "-" THEN 0 - 1 ELSE 1]
      [] st.phase \in {"esign", "edigit", "exp"} /\ c \in Digits ->
           [st EXCEPT !.phase = "exp",
                      !.eval = IF @ > 9999 THEN @ ELSE 10 * @ + DigitVal(c)]
      [] ScanComplete(st) /\ c \in Whitespace -> [st EXCEPT !.phase = "trail"]
      [] OTHER -> [st EXCEPT !.phase = "fail"]

\* The scan of s from position k on, in state st (the next state is bound
\* once, to its value).
RECURSIVE ScanFloat(_, _, _)
ScanFloat(s, k, st) ==
    IF st.phase = "fail" THEN None
    ELSE IF k > Len(s)
    THEN IF ScanComplete(st)
         THEN FloatFinite(st.sign, st.mant, st.zeros - st.frac + st.esign * st.eval)
         ELSE None
    ELSE IF st.phase \in {"lead", "int"} /\ ~st.seen /\ Lower(s[k]) \in {"i", "n"}
    THEN FloatSpecial(st.sign, SubSeq(s, k, RStripLen(s)))
    ELSE CHOOSE r \in {ScanFloat(s, k + 1, next) : next \in {ScanStep(st, s[k])}} : TRUE

\* float(tok): the scan of the encoded tok (bound once, to its value) from
\* its first character that is no whitespace to its last.
ParseFloat(tok) ==
    CHOOSE r \in {IF IsNone(s) THEN None
                  ELSE ScanFloat(SubSeq(Val(s), LStripPos(Val(s)), RStripLen(Val(s))),
                                 1, ScanStart) :
                    s \in {EncodeDecimal(tok)}} : TRUE

\* EXPOSED_TYPES[field_type](tok): the coerced value, or None when it raises.
EXPOSED_TYPES(field_type, tok) ==
    CASE field_type = STRING_T -> Str(tok)
      [] field_type = DATE -> parse_iso8601_datetime(tok)
      [] field_type = NUMBER -> ParseFloat(tok)

\* AGG_OPS[operator][1]: the declared types the operator accepts.
AGG_OPS ==
    [sum |-> {NUMBER}, avg |-> {NUMBER}, max |-> {NUMBER, DATE},
     min |-> {NUMBER, DATE}, count |-> {NUMBER, DATE, STRING_T}]

DB_ENGINE == "postgresql_psycopg2"
\* TIME_INCRS[unit][engine]
TIME_INCRS ==
    [hour |-> [postgresql_psycopg2 |-> "YYYY-MM-DD-HH24", oracle |-> "YYYY-MM-DD-HH24",
               mysql |-> "%%Y-%%m-%%d-%%H"],
     day |-> [postgresql_psycopg2 |-> "YYYY-MM-DD", oracle |-> "YYYY-MM-DD",
              mysql |-> "%%Y-%%m-%%d"],
     week |-> [postgresql_psycopg2 |-> "YYYY-WW", oracle |-> "YYYY-WW",
               mysql |-> "%%Y-%%U"],
     month |-> [postgresql_psycopg2 |-> "YYYY-MM", oracle |-> "YYYY-MM",
                mysql |-> "%%Y-%%m"],
     year |-> [postgresql_psycopg2 |-> "YYYY", oracle |-> "YYYY", mysql |-> "%%Y"],
     hourofday |-> [postgresql_psycopg2 |-> "HH24", oracle |-> "HH24", mysql |-> "%%H"],
     dayofweek |-> [postgresql_psycopg2 |-> "D", oracle |-> "D", mysql |-> "%%w"],
     weekofyear |-> [postgresql_psycopg2 |-> "WW", oracle |-> "WW", mysql |-> "%%U"],
     monthofyear |-> [postgresql_psycopg2 |-> "MM", oracle |-> "MM", mysql |-> "%%m"]]

\* ------------------------------------------------------------------ errors
\* An exception: its Python class and the message family it carries.
Raise(cls, kind) == Some([cls |-> cls, kind |-> kind])
ValueError(kind) == Raise("ValueError", kind)

\* --------------------------------------------------------------- the session
\* FactQuery.__init__.  In Python 2, None >= 0 is False, so an absent offset
\* is normalised to 0 like a negative one.
NormOffsetKeepNegative(raw) == IF IsNone(raw) THEN 0 ELSE Val(raw)
NormOffset(raw) == IF ~IsNone(raw) /\ Val(raw) >= 0 THEN Val(raw) ELSE 0

FactQuery(model_filters, query_options, record, fact_id, request_url) ==
    [valid_filters |-> model_filters,
     group_by |-> query_options.group_by,
     date_group |-> query_options.date_group,
     aggregate_by |-> query_options.aggregate_by,
     limit |-> query_options.limit,
     offset |-> NormOffset(query_options.offset),
     order_by |-> query_options.order_by,
     status |-> query_options.status,
     date_range |-> query_options.date_range,
     query_filters |-> query_options.filters,
     results |-> None,
     trc |-> None,
     grouping_p |-> None,
     flat_aggregation |-> None,
     record |-> record,
     fact_id |-> fact_id,
     request_url |-> request_url]

has_key(d, k) == k \in DOMAIN d

\* Python truth values, as `if x:` and `x and y` test them: None is false,
\* and so are the integer 0, the empty string and the empty dict.
TruthyInt(o) == ~IsNone(o) /\ Val(o) # 0
TruthyStr(o) == ~IsNone(o) /\ Val(o) # ""
TruthyDict(o) == ~IsNone(o) /\ DOMAIN Val(o) # {}

\* ------------------------------------------------------------ _apply_filters
\* The record and carenet restrictions of lines 239-241 narrow the relation
\* inside the backing store; the plan records the record scope, when the
\* record is true.
RecordScope(self) == IF TruthyStr(self.record) THEN self.record ELSE None

RECURSIVE SplitAcc(_, _, _, _)
SplitAcc(s, i, cur, acc) ==
    IF i > Len(s) THEN Append(acc, cur)
    ELSE IF s[i] = "|" THEN SplitAcc(s, i + 1, <<>>, Append(acc, cur))
    ELSE SplitAcc(s, i + 1, Append(cur, s[i]), acc)
\* val.split('|'): the parts are of the type of val.
Split(val) ==
    CHOOSE r \in {[i \in 1..Len(parts) |-> [unicode |-> val.unicode, chars |-> parts[i]]] :
                    parts \in {SplitAcc(val.chars, 1, <<>>, <<>>)}} : TRUE

\* [EXPOSED_TYPES[field_type](x) for x in val]: None when some element raises
\* (the coerced element p is bound once, to its value).
RECURSIVE CoerceAll(_, _, _)
CoerceAll(field_type, toks, acc) ==
    IF toks = <<>> THEN Some(acc)
    ELSE CHOOSE r \in {IF IsNone(p) THEN None
                       ELSE CoerceAll(field_type, Tail(toks), Append(acc, Val(p))) :
                         p \in {EXPOSED_TYPES(field_type, Head(toks))}} : TRUE

Pred(op, vals) == [op |-> op, vals |-> vals]
Outcome(err, val) == [err |-> err, val |-> val]

\* The loop over query_filters, visited in the order `order` (a Python dict
\* gives no order), then date_range and status.
RECURSIVE FilterLoop(_, _, _)
FilterLoop(self, order, filter_args) ==
    IF order = <<>> THEN Outcome(None, filter_args)
    ELSE
      LET field == Head(order)
          val == Val(self.query_filters)[field]
      IN  IF ~has_key(self.valid_filters, field)
          THEN Outcome(ValueError("InvalidField"), filter_args)
          ELSE
            LET field_type == self.valid_filters[field].type
                col == self.valid_filters[field].col
                toks == Split(val)
                parsed == CoerceAll(field_type, toks, <<>>)
            IN  IF IsNone(parsed)
                THEN Outcome(ValueError("InvalidFilterValue"), filter_args)
                ELSE IF Len(toks) = 1
                THEN FilterLoop(self, Tail(order),
                                DictSet(filter_args, col, Pred("eq", Val(parsed))))
                ELSE FilterLoop(self, Tail(order),
                                DictSet(filter_args, col \o "__in", Pred("in", Val(parsed))))

DateRangeArgs(self, filter_args) ==
    IF ~TruthyDict(self.date_range) THEN Outcome(None, filter_args)
    ELSE
      LET dr == Val(self.date_range)
      IN  IF ~has_key(self.valid_filters, dr.field)
          THEN Outcome(ValueError("InvalidField"), filter_args)
          ELSE IF self.valid_filters[dr.field].type # DATE
          THEN Outcome(ValueError("InvalidDateRangeField"), filter_args)
          ELSE
            LET col == self.valid_filters[dr.field].col
                a1 == IF TruthyInt(dr.start_date)
                      THEN DictSet(filter_args, col \o "__gte", Pred("gte", dr.start_date))
                      ELSE filter_args
                a2 == IF TruthyInt(dr.end_date)
                      THEN DictSet(a1, col \o "__lte", Pred("lte", dr.end_date))
                      ELSE a1
            IN  Outcome(None, a2)

\* if self.status: ... (lines 275-276)
StatusArgs(self, filter_args) ==
    IF TruthyStr(self.status)
    THEN DictSet(filter_args, "document__status", Pred("eq", self.status))
    ELSE filter_args

\* The value is the keyword arguments of results.filter(**filter_args).
\* With no filters option, query_filters is None and the iteritems() of
\* line 245 raises AttributeError.
apply_filters(self, order) ==
    IF IsNone(self.query_filters)
    THEN Outcome(Raise("AttributeError", "iteritems"), EmptyDict)
    ELSE LET loop == FilterLoop(self, order, EmptyDict)
         IN  IF ~IsNone(loop.err) THEN loop
             ELSE LET dr == DateRangeArgs(self, loop.val)
                  IN  IF ~IsNone(dr.err) THEN dr
                      ELSE Outcome(None, StatusArgs(self, dr.val))

\* ----------------------------------------------------------- _apply_grouping
\* FORMAT_STRS[DB_ENGINE] % {"field": field, "format": format}
FORMAT_STRS(engine, field, format) ==
    IF engine = "postgresql_psycopg2"
    THEN "to_char(\"" \o field \o "\", '" \o format \o "')"
    ELSE IF engine = "oracle"
    THEN "to_char(" \o field \o ", '" \o format \o "')"
    ELSE "date_format(" \o field \o ", '" \o format \o "')"

Grouping(group_field, select) == [group_field |-> group_field, select |-> select]

\* Raising the ValueError of line 300 formats its message with
\* self.field_type, an attribute the session never has: the statement
\* raises AttributeError instead.
DateGroupTypeError == Raise("AttributeError", "field_type")

apply_grouping(self) ==
    IF TruthyStr(self.group_by)
    THEN IF has_key(self.valid_filters, Val(self.group_by))
         THEN Outcome(None, Grouping(self.valid_filters[Val(self.group_by)].col, None))
         ELSE Outcome(ValueError("InvalidField"), Grouping("all", None))
    ELSE IF TruthyDict(self.date_group)
    THEN LET dg == Val(self.date_group)
         IN  IF ~has_key(self.valid_filters, dg.field)
             THEN Outcome(ValueError("InvalidField"), Grouping("all", None))
             ELSE IF self.valid_filters[dg.field].type # DATE
             THEN Outcome(DateGroupTypeError, Grouping("all", None))
             ELSE IF dg.time_incr \in DOMAIN TIME_INCRS
             THEN Outcome(None,
                          Grouping(dg.time_incr,
                                   Some([alias |-> dg.time_incr,
                                         expr |-> FORMAT_STRS(DB_ENGINE,
                                                     self.valid_filters[dg.field].col,
                                                     TIME_INCRS[dg.time_incr][DB_ENGINE])])))
             ELSE Outcome(ValueError("InvalidTimeIncrement"), Grouping("all", None))
    ELSE Outcome(None, Grouping("all", None))

\* -------------------------------------------------------- _apply_aggregation
Aggregation(mode, func, col) == [mode |-> mode, func |-> func, col |-> col]
NoAggregation == Aggregation("none", "", "")

MissingAggregationSkipped(self) == Outcome(None, NoAggregation)
\* else: if self.grouping_p: raise ... (lines 349-351)
MissingAggregationCheck(self) ==
    IF self.grouping_p = Some(TRUE)
    THEN Outcome(ValueError("MissingAggregation"), NoAggregation)
    ELSE Outcome(None, NoAggregation)

apply_aggregation(self) ==
    IF TruthyDict(self.aggregate_by)
    THEN LET agg_field == Val(self.aggregate_by).field
             operator == Val(self.aggregate_by).operator
         IN  IF ~has_key(self.valid_filters, agg_field)
             THEN Outcome(ValueError("InvalidField"), NoAggregation)
             ELSE IF operator \notin DOMAIN AGG_OPS
             THEN Outcome(ValueError("InvalidAggregateOperator"), NoAggregation)
             ELSE IF self.valid_filters[agg_field].type \notin AGG_OPS[operator]
             THEN Outcome(ValueError("IncompatibleAggregateType"), NoAggregation)
             ELSE Outcome(None,
                          Aggregation(IF self.grouping_p = Some(TRUE)
                                      THEN "annotate" ELSE "aggregate",
                                      operator, self.valid_filters[agg_field].col))
    ELSE MissingAggregationCheck(self)

\* ----------------------------------------------------------- _apply_ordering
\* An order_by is a sequence of lexemes, "-" and field names; the string it
\* stands for is their concatenation.
RECURSIVE Join(_)
Join(lexemes) == IF lexemes = <<>> THEN "" ELSE Head(lexemes) \o Join(Tail(lexemes))

\* order_by[1:] when the first character is '-'
StripDesc(order_by) == IF Head(order_by) = "-" THEN Tail(order_by) ELSE order_by

OrderColumnNoAggregateCase(self, order_by_field_ext, order_by_field) ==
    IF TruthyStr(self.group_by) /\ order_by_field_ext # Val(self.group_by)
    THEN Outcome(ValueError("InvalidOrderField"), "")
    ELSE IF TruthyDict(self.date_group) /\ order_by_field_ext # Val(self.date_group).field
    THEN Outcome(ValueError("InvalidOrderField"), "")
    ELSE IF TruthyDict(self.date_group)
    THEN Outcome(None, Val(self.date_group).time_incr)
    ELSE Outcome(None, order_by_field)

\* The special cases of aggregation and grouping, lines 371-378: the backing
\* sort column, or the error.
OrderColumn(self, order_by_field_ext, order_by_field) ==
    IF TruthyDict(self.aggregate_by) /\ order_by_field_ext = Val(self.aggregate_by).field
    THEN Outcome(None, "aggregate_value")
    ELSE IF TruthyStr(self.group_by) /\ order_by_field_ext # Val(self.group_by)
    THEN Outcome(ValueError("InvalidOrderField"), "")
    ELSE IF TruthyDict(self.date_group) /\ order_by_field_ext # Val(self.date_group).field
    THEN Outcome(ValueError("InvalidOrderField"), "")
    ELSE IF TruthyDict(self.date_group)
    THEN Outcome(None, Val(self.date_group).time_incr)
    ELSE Outcome(None, order_by_field)

\* The value is the argument list of results.order_by(...).
apply_ordering(self) ==
    IF self.order_by # <<>>
    THEN LET desc == Head(self.order_by) = "-"
             order_by_field_ext == Join(StripDesc(self.order_by))
         IN  IF ~has_key(self.valid_filters, order_by_field_ext)
             THEN Outcome(ValueError("InvalidField"), <<>>)
             ELSE LET c == OrderColumn(self, order_by_field_ext,
                                       self.valid_filters[order_by_field_ext].col)
                  IN  IF ~IsNone(c.err) THEN Outcome(c.err, <<>>)
                      ELSE Outcome(None,
                                   <<IF desc THEN "-" \o c.val ELSE c.val, "id">>)
    ELSE Outcome(None, <<>>)

\* ------------------------------------------------------------------- execute
Plan(filter_args, grouping, agg, ordering, record, fact_id) ==
    [filter_args |-> filter_args, group_field |-> grouping.group_field,
     select |-> grouping.select, agg |-> agg, order_by |-> ordering,
     record |-> record, fact_id |-> fact_id]

Results(kind, plan, rows) == [kind |-> kind, plan |-> plan, rows |-> rows]

\* self.model.objects.filter(id=self.fact_id), evaluated
InstanceRows(store, fact_id) == SelectSeq(store, LAMBDA id : id = fact_id)

\* results[self.offset:self.offset+self.limit] when a limit is set
Paginate(self, full) ==
    IF TruthyInt(self.limit)
    THEN Slice(full, self.offset, self.offset + Val(self.limit))
    ELSE full

\* Lines 187-188: the two mode flags, as truth values.
SetModeFlags(self) ==
    LET grouping == TruthyStr(self.group_by) \/ TruthyDict(self.date_group)
    IN  [self EXCEPT !.grouping_p = Some(grouping),
                     !.flat_aggregation = Some(TruthyDict(self.aggregate_by) /\ ~grouping)]

\* Steps 3-5 of execute, once filters and grouping have compiled.
Finish(self, store, f, g) ==
    LET s1 == SetModeFlags(self)
        flat == s1.flat_aggregation = Some(TRUE)
        a == apply_aggregation(s1)
        o == IF flat THEN Outcome(None, <<>>) ELSE apply_ordering(s1)
        plan == Plan(f.val, g.val, a.val, o.val, RecordScope(self), None)
    IN  IF ~IsNone(a.err) THEN Outcome(a.err, s1)
        ELSE IF ~IsNone(o.err) THEN Outcome(o.err, s1)
        ELSE IF flat
        THEN Outcome(None, [s1 EXCEPT !.trc = Some(1),
                                      !.results = Some(Results("list", plan, <<0>>))])
        ELSE Outcome(None, [s1 EXCEPT !.trc = Some(Len(store)),
                                      !.results = Some(Results("QuerySet", plan,
                                                               Paginate(s1, store)))])

\* execute(): the error raised, if any, and the session as the call leaves it.
\* `order` is the order in which the filters dict is visited; `store` is the
\* relation the backing store yields for the compiled plan.
execute(self, order, store) ==
    IF TruthyInt(self.fact_id)
    THEN LET rows == InstanceRows(store, Val(self.fact_id))
             plan == Plan(EmptyDict, Grouping("all", None), NoAggregation, <<>>,
                          None, self.fact_id)
         IN  Outcome(None, [self EXCEPT !.trc = Some(Len(rows)),
                                        !.results = Some(Results("QuerySet", plan, rows))])
    ELSE LET f == apply_filters(self, order)
             g == apply_grouping(self)
         IN  IF ~IsNone(f.err) THEN Outcome(f.err, self)
             ELSE IF ~IsNone(g.err) THEN Outcome(g.err, self)
             ELSE Finish(self, store, f, g)

\* ------------------------------------------------------------------ next_url
\* A URL is its part before the '?' and its query string, a sequence of
\* <<key, value>> pairs ("key=value" joined by '&'); a value is a sequence of
\* characters.  A URL without a query string has the empty sequence.
Url(base, query) == [base |-> base, query |-> query]

RECURSIVE NatToStr(_)
NatToStr(n) == IF n < 10 THEN <<DigitChar(n)>>
               ELSE Append(NatToStr(n \div 10), DigitChar(n % 10))
\* str(n)
IntToStr(n) == IF n < 0 THEN <<"-">> \o NatToStr(-n) ELSE NatToStr(n)

\* urlparse.parse_qsl(query): pairs with a blank value are dropped.
parse_qsl(query) == SelectSeq(query, LAMBDA pair : pair[2] # <<>>)

\* dict(pairs): a later pair replaces an earlier one with the same key.
RECURSIVE ToDict(_, _)
ToDict(pairs, d) ==
    IF pairs = <<>> THEN d
    ELSE ToDict(Tail(pairs), DictSet(d, Head(pairs)[1], Head(pairs)[2]))

NextOffsetNoBase(self) == Val(self.limit)
\* query_dict['offset'] = self.offset + self.limit, as urlencode will print it
NextOffset(self) == self.offset + Val(self.limit)

NextQueryDict(self) ==
    DictSet(ToDict(parse_qsl(self.request_url.query), EmptyDict),
            "offset", IntToStr(NextOffset(self)))

\* urllib.urlencode(query_dict), the keys visited in the order `keys`
urlencode(query_dict, keys) == [i \in 1..Len(keys) |-> <<keys[i], query_dict[keys[i]]>>]

\* The orders in which a dict with the key set S can be visited.
Orders(S) == {p \in [1..Cardinality(S) -> S] : \A i, j \in 1..Cardinality(S) :
                                                  p[i] = p[j] => i = j}
\* The orders in which the loop of line 245 may visit the filters.
FilterOrders(self) ==
    IF IsNone(self.query_filters) THEN {<<>>} ELSE Orders(DOMAIN Val(self.query_filters))

\* if parsed_uri.query: ... (lines 224-230)
RebuildUrl(self, keys) ==
    IF self.request_url.query # <<>>
    THEN Some(Url(self.request_url.base, urlencode(NextQueryDict(self), keys)))
    ELSE None

\* The condition of line 223.
HasNextPage(self, result_count) ==
    TruthyInt(self.limit) /\ Val(self.trc) > self.offset + result_count

\* next_url(): the error raised, if any, and the value returned.  With no
\* results, isinstance(None, QuerySet) is false and len(None) raises.
next_url(self, keys) ==
    IF IsNone(self.results)
    THEN Outcome(Raise("TypeError", "len(None)"), None)
    ELSE IF HasNextPage(self, Len(Val(self.results).rows))
    THEN Outcome(None, RebuildUrl(self, keys))
    ELSE Outcome(None, None)

\* The key orders next_url may see.
UrlKeyOrders(self) ==
    IF IsNone(self.limit) THEN {<<>>} ELSE Orders(DOMAIN NextQueryDict(self))

\* ------------------------------------------------------ the request handler
\* What the request parser reads back from a continuation URL: the last
\* "offset" parameter, as an integer.
StrToInt(s) == IF Head(s) = "-" THEN 0 - DigitsVal(Tail(s), 0) ELSE DigitsVal(s, 0)
OffsetOf(url) == StrToInt(ToDict(parse_qsl(url.query), EmptyDict)["offset"])

\* The options a session was built from, with another offset.
OptionsOf(self, offset) ==
    [group_by |-> self.group_by, date_group |-> self.date_group,
     aggregate_by |-> self.aggregate_by, limit |-> self.limit, offset |-> offset,
     order_by |-> self.order_by, status |-> self.status,
     date_range |-> self.date_range, filters |-> self.query_filters]

\* The session of the request for `url`: same schema and options, the offset
\* the URL carries.
SessionFor(self, url) ==
    FactQuery(self.valid_filters, OptionsOf(self, Some(OffsetOf(url))),
              self.record, self.fact_id, url)

\* ------------------------------------------------------------- state machine
VARIABLES
    session,   \* the FactQuery object of the current request
    store,     \* the relation the backing store yields, unchanged throughout
    last,      \* the last call: its name, whether results were still None
               \* when it began, the error it raised, the URL it returned,
               \* and the counters, results and count as they were when it began
    stats,     \* backing-store work of the session: plans compiled, count
               \* queries and fetches issued by execute(), and the reads of
               \* render() and next_url()
    calls,     \* number of calls made on the session
    prev       \* the page the current request continues, if any

vars == <<session, store, last, stats, calls, prev>>

Call(op, fresh, err, url, before) ==
    [op |-> op, fresh |-> fresh, err |-> err, url |-> url, before |-> before]
NoStats == [compiles |-> 0, counts |-> 0, fetches |-> 0, reads |-> 0]
Before(self, st) == [stats |-> st, results |-> self.results, trc |-> self.trc]

\* The backing-store work one run of execute() does.
ExecWork(self, out, st) ==
    IF TruthyInt(self.fact_id)
    THEN [st EXCEPT !.fetches = @ + 1]
    ELSE IF ~IsNone(out.err)
    THEN [st EXCEPT !.compiles = @ + 1]
    ELSE IF out.val.flat_aggregation = Some(TRUE)
    THEN [st EXCEPT !.compiles = @ + 1, !.fetches = @ + 1]
    ELSE [st EXCEPT !.compiles = @ + 1, !.counts = @ + 1]

\* execute() called by the view.
Execute ==
    /\ calls < MaxCalls
    /\ \E order \in FilterOrders(session) :
         \E out \in {execute(session, order, store)} :
            /\ session' = out.val
            /\ stats' = ExecWork(session, out, stats)
            /\ last' = Call("execute", IsNone(session.results), out.err, None,
                            Before(session, stats))
    /\ calls' = calls + 1
    /\ UNCHANGED <<store, prev>>

\* render(): executes first when there are no results yet, then iterates the
\* results (a QuerySet is fetched through .iterator(), a list is at hand).
RenderWork(self, st) ==
    IF Val(self.results).kind = "QuerySet" THEN [st EXCEPT !.reads = @ + 1] ELSE st

\* if self.results is None: self.execute()
NeedsExecute(self) == IsNone(self.results)

Render ==
    /\ calls < MaxCalls
    /\ IF NeedsExecute(session)
       THEN \E order \in FilterOrders(session) :
              \E out \in {execute(session, order, store)} :
                 /\ session' = out.val
                 /\ stats' = IF IsNone(out.err)
                             THEN RenderWork(out.val, ExecWork(session, out, stats))
                             ELSE ExecWork(session, out, stats)
                 /\ last' = Call("render", IsNone(session.results), out.err, None,
                                 Before(session, stats))
       ELSE /\ session' = session
            /\ stats' = RenderWork(session, stats)
            /\ last' = Call("render", FALSE, None, None, Before(session, stats))
    /\ calls' = calls + 1
    /\ UNCHANGED <<store, prev>>

\* next_url() called by the view; a QuerySet is counted by the store.
NextUrlWork(self, st) ==
    IF ~IsNone(self.results) /\ Val(self.results).kind = "QuerySet"
    THEN [st EXCEPT !.reads = @ + 1] ELSE st

NextUrl ==
    /\ calls < MaxCalls
    /\ \E keys \in UrlKeyOrders(session) :
         LET out == next_url(session, keys)
         IN  last' = Call("next_url", IsNone(session.results), out.err, out.val,
                         Before(session, stats))
    /\ stats' = NextUrlWork(session, stats)
    /\ calls' = calls + 1
    /\ UNCHANGED <<session, store, prev>>

\* The client requests the continuation URL: a new session for it.
Page(self) == [offset |-> self.offset, limit |-> self.limit,
               rows |-> Val(self.results).rows, trc |-> self.trc]

Follow ==
    /\ last.op = "next_url"
    /\ ~IsNone(last.url)
    /\ session' = SessionFor(session, Val(last.url))
    /\ prev' = Some(Page(session))
    /\ last' = Call("init", TRUE, None, None, [stats |-> NoStats, results |-> None, trc |-> None])
    /\ stats' = NoStats
    /\ calls' = 0
    /\ UNCHANGED store

Next == Execute \/ Render \/ NextUrl \/ Follow

\* ------------------------------------------------------------ initial states
\* Field schemas: exposed name -> backing column and declared type.
Field(col, type) == [col |-> col, type |-> type]
SchemaPlain ==
    [weight |-> Field("value", NUMBER), created |-> Field("created_at", DATE),
     name |-> Field("name", STRING_T)]
\* A schema in which two exposed names share a column and one exposes the
\* document status column.
SchemaAlias ==
    [weight |-> Field("value", NUMBER), created |-> Field("created_at", DATE),
     name |-> Field("name", STRING_T), label |-> Field("name", STRING_T),
     state |-> Field("document__status", STRING_T)]

\* query_options: group_by, date_group, aggregate_by, limit, offset, order_by,
\* status, date_range, filters.
Options(gb, dg, ab, lim, off, ob, st, dr, fl) ==
    [group_by |-> gb, date_group |-> dg, aggregate_by |-> ab, limit |-> lim,
     offset |-> off, order_by |-> ob, status |-> st, date_range |-> dr,
     filters |-> fl]

DateGroup(field, time_incr) == [field |-> field, time_incr |-> time_incr]
AggregateBy(field, operator) == [field |-> field, operator |-> operator]
DateRange(field, start_date, end_date) ==
    [field |-> field, start_date |-> start_date, end_date |-> end_date]

Limits == {None} \cup {Some(n) : n \in 0..MaxLimit}
Offsets == {None} \cup {Some(n) : n \in -1..MaxOffset}

\* The request URL of a request with these options, in one of four shapes.
OffsetPair(o) == IF IsNone(o.offset) THEN <<>> ELSE << <<"offset", IntToStr(Val(o.offset))>> >>
LimitPair(o) == IF IsNone(o.limit) THEN <<>> ELSE << <<"limit", IntToStr(Val(o.limit))>> >>
UrlShapes == {"bare", "paging", "other", "blank"}
RequestUrl(shape, o) ==
    Url("http://indivo/records/r1/reports/minimal/labs/",
        CASE shape = "bare" -> <<>>
          [] shape = "paging" -> OffsetPair(o) \o LimitPair(o)
          [] shape = "other" -> << <<"order_by", <<"n">> >> >>
          [] shape = "blank" -> << <<"status", <<>> >> >> \o OffsetPair(o))

\* The i-th row the store yields has id RowId(i).
RowId(i) == 10 * i
Store(n) == [i \in 1..n |-> RowId(i)]

Start(schemas, options, fact_ids, shapes, sizes) ==
    /\ \E schema \in schemas, o \in options, fact_id \in fact_ids, shape \in shapes :
         session = FactQuery(schema, o, Some("r1"), fact_id, RequestUrl(shape, o))
    /\ \E n \in sizes : store = Store(n)
    /\ last = Call("init", TRUE, None, None, [stats |-> NoStats, results |-> None, trc |-> None])
    /\ stats = NoStats
    /\ calls = 0
    /\ prev = None

\* Paging: every limit, offset, URL shape and store size, over a plain
\* listing, a flat aggregation, a grouped listing and a single-instance lookup.
PagingModes ==
    {<<None, None>>, <<Some("name"), Some(AggregateBy("weight", "avg"))>>,
     <<None, Some(AggregateBy("weight", "avg"))>>,
     <<None, Some(AggregateBy("name", "count"))>>,
     <<None, Some(AggregateBy("created", "max"))>>}
PagingOptions ==
    {Options(m[1], None, m[2], l, f, <<>>, None, None, Some(EmptyDict)) :
        m \in PagingModes, l \in Limits, f \in Offsets}

Init == Start({SchemaPlain}, PagingOptions, {None, Some(0), Some(RowId(1))}, UrlShapes,
              0..MaxRows)
Spec == Init /\ [][Next]_vars

\* Compilation: every mix of grouping, date grouping, aggregate, ordering and
\* filters, valid and invalid, over a paged request.
CompileGroupBys == {None, Some(""), Some("name"), Some("bogus")}
CompileDateGroups ==
    {None, Some(DateGroup("created", "month")), Some(DateGroup("created", "decade")),
     Some(DateGroup("weight", "dayofweek")), Some(DateGroup("name", "decade")),
     Some(DateGroup("bogus", "day"))}
CompileAggregates ==
    {None, Some(AggregateBy("weight", "avg")), Some(AggregateBy("name", "count")),
     Some(AggregateBy("name", "sum")), Some(AggregateBy("weight", "median")),
     Some(AggregateBy("bogus", "avg"))}
CompileOrderBys ==
    {<<>>, <<"weight">>, <<"-", "weight">>, <<"name">>, <<"-", "created">>,
     <<"bogus">>, <<"-">>}
CompileFilters ==
    {None, Some(EmptyDict), Some([weight |-> Bytes(<<"7", "0">>)]),
     Some([weight |-> Unicode(<<"7", "a">>)])}
CompileOptions ==
    {Options(g, d, a, Some(1), None, o, None, None, f) :
        g \in CompileGroupBys, d \in CompileDateGroups, a \in CompileAggregates,
        o \in CompileOrderBys, f \in CompileFilters}

InitCompile == Start({SchemaPlain}, CompileOptions, {None, Some(0), Some(RowId(1))},
                     {"paging"}, {MaxRows})
SpecCompile == InitCompile /\ [][Next]_vars

\* Filters: field filters, status and date range over both schemas.
FilterSets ==
    {EmptyDict,
     [weight |-> Bytes(<<"7", "0">>)],
     [weight |-> Unicode(<<"7", "0", "|", "7", "5">>)],
     [weight |-> Bytes(<<"7", "|", "a">>)],
     [weight |-> Bytes(<<" ", "-", "7", ".", "5", "0">>)],
     [weight |-> Bytes(<<"+", ".", "5", "e", "1", "|", "7", ".", "|", "I", "n", "f",
                         VerticalTab>>)],
     [weight |-> Bytes(<<VerticalTab, "1", "e", "4", "0", "0", "|", "1", "e", "-", "4",
                         "0", "0">>)],
     [weight |-> Unicode(<<"7", "e">>)],
     [weight |-> Unicode(<<"\\xa0", "\\u0667", "|", "3", "e", "-", "3", "2", "4", "|",
                           "4", "e", "-", "3", "2", "4">>)],
     [weight |-> Unicode(<<"\\u0667", "|", "\\x1c", "7">>)],
     [weight |-> Bytes(<<"7", "|", "\\x1c", "7">>)],
     [name |-> Unicode(<<"c", "\\xe9">>)],
     [name |-> Bytes(<<"c", "\\xc3", "\\xa9">>)],
     [name |-> Unicode(<<"a", "|">>), weight |-> Unicode(<<"7">>)],
     [name |-> Bytes(<<"a", "|", "a", "|", "b">>)],
     [created |-> Unicode(<<IsoLexeme>>)],
     [created |-> Bytes(<<IsoLexeme, "|", IsoLexeme>>)],
     [created |-> Bytes(<<"7">>)],
     [bogus |-> Bytes(<<"a">>)],
     [name |-> Unicode(<<"a">>), label |-> Unicode(<<"b">>)],
     [state |-> Bytes(<<"a">>)]}
FilterStatuses == {None, Some(""), Some("active")}
FilterDateRanges ==
    {None, Some(DateRange("created", Some(1), None)),
     Some(DateRange("created", Some(1), Some(2))),
     Some(DateRange("created", Some(0), Some(2))),
     Some(DateRange("weight", Some(1), None)), Some(DateRange("bogus", None, None))}
FilterOptions ==
    {Options(None, None, None, Some(1), None, <<>>, st, dr, f) :
        st \in FilterStatuses, dr \in FilterDateRanges,
        f \in {None} \cup {Some(d) : d \in FilterSets}}

InitFilters == Start({SchemaPlain, SchemaAlias}, FilterOptions, {None, Some(0)}, {"paging"},
                     {MaxRows})
SpecFilters == InitFilters /\ [][Next]_vars

\* ------------------------------------------------------------------ claims
Executed == ~IsNone(session.results)
SingleInstance == TruthyInt(session.fact_id)
GroupingActive == TruthyStr(session.group_by) \/ TruthyDict(session.date_group)
Rows == Val(session.results).rows
ExecWorkOf(st) == <<st.compiles, st.counts, st.fetches>>

\* The aggregate_by of the session names a schema field and an operator that
\* accepts the field's declared type.
ValidAggregate ==
    /\ TruthyDict(session.aggregate_by)
    /\ has_key(session.valid_filters, Val(session.aggregate_by).field)
    /\ Val(session.aggregate_by).operator \in DOMAIN AGG_OPS
    /\ session.valid_filters[Val(session.aggregate_by).field].type
          \in AGG_OPS[Val(session.aggregate_by).operator]

\* C1: after execute() on a query that is neither a single-instance lookup nor
\* failed, next_url() returns a URL if and only if a limit was set and
\* total_count > offset + rows returned, for every request URL, one without
\* a query string included.
C1_NextUrlIffMoreRows ==
    (last.op = "next_url" /\ Executed /\ ~SingleInstance)
       => (~IsNone(last.url) <=>
             (~IsNone(session.limit) /\ Val(session.trc) > session.offset + Len(Rows)))

\* C2: following the continuation URL of a page at offset o with limit l > 0
\* gives a session at offset o + l whose rows are positions [o+l, o+2l) of
\* the same ordered result, with the same total count; the two pages joined
\* are positions [o, o+2l), so they neither overlap nor skip a row.
C2_PaginationChaining ==
    (~IsNone(prev) /\ Executed)
       => LET p == Val(prev)
              l == Val(p.limit)
          IN  /\ l > 0
              /\ session.limit = p.limit
              /\ session.offset = p.offset + l
              /\ Rows = Slice(store, p.offset + l, p.offset + 2 * l)
              /\ session.trc = p.trc
              /\ p.rows \o Rows = Slice(store, p.offset, p.offset + 2 * l)

\* Page N + 1 for N >= 1 has been fetched through two continuation URLs and
\* holds rows.
C2_Witness ==
    /\ ~IsNone(prev) /\ Executed
    /\ Val(prev).offset = Val(Val(prev).limit)
    /\ Len(Rows) > 0

\* C3: next_url() on a session on which execute() has not run executes it
\* first and returns normally; it never fails for want of results.
C3_NextUrlExecutesFirst ==
    (last.op = "next_url" /\ last.fresh) => (IsNone(last.err) /\ Executed)

\* C4: once results are cached, a later execute(), explicit or through
\* render(), reuses them: it compiles nothing and issues no count or fetch.
C4_ExecuteComputeOnce ==
    (last.op \in {"execute", "render"} /\ ~last.fresh)
       => ExecWorkOf(stats) = ExecWorkOf(last.before.stats)

\* C5: a valid aggregate_by without group_by or date_group, on a query that
\* is no single-instance lookup: execute() succeeds when the filters compile,
\* results are one row, the total count is 1, and next_url() returns None for
\* every limit and offset.
FlatQuery == ValidAggregate /\ ~GroupingActive /\ ~SingleInstance
C5_FlatAggregation ==
    FlatQuery
       => /\ (last.op \in {"execute", "render"}) => (IsNone(last.err) /\ Executed)
          /\ Executed => /\ Val(session.results).kind = "list"
                         /\ Len(Rows) = 1
                         /\ session.trc = Some(1)
          /\ (last.op = "next_url" /\ Executed) => IsNone(last.url)

\* next_url() was called on an executed flat aggregation that has a limit, a
\* request URL with a query string and a store of more than one row.
C5_Witness ==
    /\ FlatQuery /\ Executed /\ last.op = "next_url"
    /\ TruthyInt(session.limit)
    /\ session.request_url.query # <<>>
    /\ Len(store) > 1

\* C9: with a limit requested (any integer >= 0), a successful execute() that
\* is neither flat nor a single-instance lookup holds exactly the rows at
\* positions [offset, offset+limit), never more than limit rows, and the
\* total count is the size of the full result.
C9_SliceExact ==
    (Executed /\ ~SingleInstance /\ ~FlatQuery /\ ~IsNone(session.limit))
       => /\ Rows = Slice(store, session.offset, session.offset + Val(session.limit))
          /\ Len(Rows) <= Val(session.limit)
          /\ session.trc = Some(Len(store))

\* The stages that run before aggregation raise nothing.
FiltersCompile ==
    \A order \in FilterOrders(session) :
        IsNone(apply_filters(session, order).err)
GroupingCompiles == IsNone(apply_grouping(session).err)
ExecuteCalled == last.op \in {"execute", "render"}
\* The grouping stage stops on the AttributeError of line 300 (see C8).
DateGroupTypeFault == apply_grouping(session).err = DateGroupTypeError
\* The options carry a filters mapping, as the data model of the
\* specification has it (without one, line 245 raises AttributeError).
FiltersPresent == ~IsNone(session.query_filters)

\* C6 as stated: with group_by or date_group set and no aggregate_by,
\* execute() fails with MissingAggregation and produces no result set,
\* whatever the other options and construction parameters are.  (Sessions
\* that stop on the fault of C8, or have no filters mapping, are left out, so
\* that the claim is judged on its own.)
C6_GroupingNeedsAggregate ==
    (ExecuteCalled /\ GroupingActive /\ ~TruthyDict(session.aggregate_by)
                   /\ ~DateGroupTypeFault /\ FiltersPresent)
       => (last.err = ValueError("MissingAggregation") /\ ~Executed)

\* C6 amended: such a session, unless it is a single-instance lookup, fails
\* in execute() and produces no result set; the error is MissingAggregation
\* whenever the filter and grouping stages, which run first, raise none.
C6_GroupingNeedsAggregateAmended ==
    (ExecuteCalled /\ GroupingActive /\ ~TruthyDict(session.aggregate_by) /\ ~SingleInstance)
       => /\ ~IsNone(last.err)
          /\ ~Executed
          /\ (FiltersCompile /\ GroupingCompiles)
                => last.err = ValueError("MissingAggregation")

\* execute() raised MissingAggregation on a date-grouped query without an
\* aggregate.
C6_Witness ==
    /\ ExecuteCalled /\ ~SingleInstance
    /\ TruthyDict(session.date_group) /\ ~TruthyDict(session.aggregate_by)
    /\ last.err = ValueError("MissingAggregation")

OrderField == Join(StripDesc(session.order_by))
AggregateField == Val(session.aggregate_by).field
GroupingFields ==
    (IF TruthyStr(session.group_by) THEN {Val(session.group_by)} ELSE {})
       \cup (IF TruthyDict(session.date_group) THEN {Val(session.date_group).field} ELSE {})

\* C7 as stated: while grouping is active with a valid aggregate, an order_by
\* on a field that is neither the grouping field nor the aggregate field makes
\* execute() fail with InvalidOrderField, and one on either field is accepted.
\* (Sessions that stop on the fault of C8, or have no filters mapping, are
\* left out.)
C7_OrderFieldUnderGrouping ==
    (ExecuteCalled /\ GroupingActive /\ ValidAggregate /\ session.order_by # <<>>
                   /\ ~DateGroupTypeFault /\ FiltersPresent)
       => IF OrderField \in GroupingFields \cup {AggregateField}
          THEN last.err # ValueError("InvalidOrderField")
          ELSE last.err = ValueError("InvalidOrderField")

\* C7 amended: in a query that is no single-instance lookup, has exactly one
\* of group_by and date_group set, a valid aggregate, and filter and grouping
\* stages that raise nothing: an order_by on the grouping field or the
\* aggregate field is accepted and execute() succeeds; on another schema field
\* execute() fails with InvalidOrderField; on a name the schema does not have
\* it fails with InvalidField.
C7_OrderFieldUnderGroupingAmended ==
    (/\ ExecuteCalled /\ ~SingleInstance
     /\ TruthyStr(session.group_by) # TruthyDict(session.date_group)
     /\ ValidAggregate /\ FiltersCompile /\ GroupingCompiles
     /\ session.order_by # <<>>)
       => IF OrderField \in GroupingFields \cup {AggregateField}
          THEN IsNone(last.err) /\ Executed
          ELSE IF has_key(session.valid_filters, OrderField)
          THEN last.err = ValueError("InvalidOrderField") /\ ~Executed
          ELSE last.err = ValueError("InvalidField") /\ ~Executed

\* Under date grouping on created with an aggregate on weight, execute() has
\* refused an order_by on name, a schema field that is neither of the two.
C7_Witness ==
    /\ ExecuteCalled /\ ~SingleInstance
    /\ ~TruthyStr(session.group_by) /\ TruthyDict(session.date_group)
    /\ ValidAggregate /\ FiltersCompile /\ GroupingCompiles
    /\ session.order_by = <<"name">>
    /\ AggregateField = "weight"
    /\ last.err = ValueError("InvalidOrderField")

\* C8: date grouping on a schema field whose declared type is not date makes
\* execute() fail with the InvalidDateGroupField validation error, for every
\* time-bucket unit.
C8_DateGroupOnNonDateField ==
    (/\ ExecuteCalled /\ ~SingleInstance /\ FiltersCompile
     /\ ~TruthyStr(session.group_by) /\ TruthyDict(session.date_group)
     /\ has_key(session.valid_filters, Val(session.date_group).field)
     /\ session.valid_filters[Val(session.date_group).field].type # DATE)
       => last.err = ValueError("InvalidDateGroupField")

\* C10: every supplied field filter has its own predicate in the arguments of
\* the final filter: N >= 2 tokens give a membership predicate over the N
\* coerced tokens, one token gives an equality predicate, and none is dropped
\* or replaced by another filter, the status or the date range.
FilterArgs == Val(session.results).plan.filter_args
OwnPredicate(field) ==
    LET f == session.valid_filters[field]
        toks == Split(Val(session.query_filters)[field])
        vals == Val(CoerceAll(f.type, toks, <<>>))
    IN  IF Len(toks) >= 2
        THEN /\ has_key(FilterArgs, f.col \o "__in")
             /\ FilterArgs[f.col \o "__in"] = Pred("in", vals)
             /\ Len(vals) = Len(toks)
        ELSE /\ has_key(FilterArgs, f.col)
             /\ FilterArgs[f.col] = Pred("eq", vals)
C10_EveryFilterHasItsPredicate ==
    (Executed /\ ~SingleInstance)
       => \A field \in DOMAIN Val(session.query_filters) : OwnPredicate(field)

====
